---- MODULE Spec2Model ----
(***************************************************************************)
(* Aegis core: the STTF directive parser (parseSTTFFromURL), the single-   *)
(* slot telemetry bus (registerTelemetrySink / emitEvent) and the          *)
(* detection facade (extractSTTFDirectives).                               *)
(*                                                                         *)
(* A JavaScript string is a sequence of one-character strings, so that     *)
(* startsWith, slice, split and the percent codecs are computed character  *)
(* by character as the runtime computes them.                              *)
(***************************************************************************)
EXTENDS Integers, Sequences, FiniteSets, TLC

VARIABLES
  sink,     \* telemetry.ts: the registered sink, NoSink for null
  prev,     \* history: the sink the last registration replaced
  now,      \* the clock Date.now() reads
  op,       \* the last call made on the core
  url,      \* the url handed to the parser and the detector
  path,     \* the path handed to the detector
  fn,       \* its sink argument
  event,    \* its event argument
  result,   \* the value it returned
  raised,   \* whether it threw instead of returning
  calls,    \* the sink invocations it made, in order
  unhandled,\* whether it left a rejected promise nobody handles
  config,   \* useAegis.ts: the AegisConfig useAegis is called with
  opts,     \* sttf.ts: the options useSTTFProtection is called with
  inst,     \* the mounts of the hook: refs, effect, asynchronous run
  doc,      \* the documents: lazy resources, text, inserted elements
  cur,      \* the number of mounts made so far; the last is the live one
  mws,      \* express: the middlewares aegis() has created, in order
  mw,       \* express: the middleware that handled the last request, or 0
  nexts     \* express: how often the last request handled called next()

coreVars ==
  <<sink, prev, now, op, url, path, fn, event, result, raised, calls,
    unhandled>>
viewVars == <<config, opts, inst, doc, cur>>
expressVars == <<mws, mw, nexts>>
vars == <<coreVars, viewVars, expressVars>>

(***************************************************************************)
(* Bounds                                                                  *)
(***************************************************************************)
\* largest number of '&'-separated pieces in an enumerated fragment
MaxPairs == 2
\* largest value of the clock read by Date.now()
MaxClock == 1
\* the mounts of the hook in one behaviour
MaxMounts == 2
\* the lazy images of a document
MaxImages == 2
\* the largest noiseBudgetMs, in ticks of the clock
MaxBudget == 1
MaxMiddlewares == 2
TickMs == 100

(***************************************************************************)
(* String helpers (String.prototype / Array.prototype methods)             *)
(***************************************************************************)
EmptyStr == <<>>

\* s.startsWith(p)
StartsWith(s, p) == Len(s) >= Len(p) /\ SubSeq(s, 1, Len(p)) = p

\* s.slice(n) for 0 <= n
Slice(s, n) == SubSeq(s, n + 1, Len(s))

\* s.indexOf(c) + 1, 0 when c does not occur
RECURSIVE IndexFrom(_, _, _)
IndexFrom(s, cs, i) ==
  IF i > Len(s) THEN 0
  ELSE IF s[i] \in cs THEN i
  ELSE IndexFrom(s, cs, i + 1)

IndexOf(s, c) == IndexFrom(s, {c}, 1)

\* s.split(c)
RECURSIVE Split(_, _)
Split(s, c) ==
  LET i == IndexOf(s, c)
  IN IF i = 0 THEN <<s>>
     ELSE <<SubSeq(s, 1, i - 1)>> \o Split(Slice(s, i), c)

\* xs.join(sep) : the elements separated by sep, "" for the empty array
RECURSIVE Join(_, _)
Join(xs, sep) ==
  IF Len(xs) = 0 THEN EmptyStr
  ELSE IF Len(xs) = 1 THEN xs[1]
  ELSE xs[1] \o sep \o Join(Tail(xs), sep)

(***************************************************************************)
(* new URL(url, "http://localhost") : WHATWG URL parsing of the input      *)
(***************************************************************************)
TabOrNewline == {"\t", "\n", "\r"}
C0OrSpace == {" ", "\t", "\n", "\r"}
\* code points the fragment state percent-encodes (the quote and the
\* backtick, which the inputs never contain, are left out)
FragmentEncodeSet == {" ", "<", ">"}
\* code points that may not occur in the host of a special-scheme URL
ForbiddenHost == {" ", "#", "/", "<", ">", "?", "@", "[", "]", "^", "|", "%"}
HttpAuthority == <<"h", "t", "t", "p", ":", "/", "/">>

\* leading and trailing C0 control or space are removed
RECURSIVE StripLeading(_)
StripLeading(s) ==
  IF Len(s) > 0 /\ s[1] \in C0OrSpace THEN StripLeading(Tail(s)) ELSE s

RECURSIVE StripTrailing(_)
StripTrailing(s) ==
  IF Len(s) > 0 /\ s[Len(s)] \in C0OrSpace
  THEN StripTrailing(SubSeq(s, 1, Len(s) - 1)) ELSE s

\* every ASCII tab or newline is removed from the input
RemoveTabNewline(s) == SelectSeq(s, LAMBDA c : c \notin TabOrNewline)

Normalize(s) == RemoveTabNewline(StripTrailing(StripLeading(s)))

\* the host of an absolute http URL: up to the first '/', '?' or '#'
HostOf(s) ==
  LET rest == Slice(s, Len(HttpAuthority))
      e == IndexFrom(rest, {"/", "?", "#"}, 1)
  IN IF e = 0 THEN rest ELSE SubSeq(rest, 1, e - 1)

\* host parsing: an empty host, an unclosed '[' and a forbidden host code
\* point are failures (the syntax inside a closed IPv6 literal is not
\* modelled)
HostValid(h) ==
  /\ Len(h) > 0
  /\ IF h[1] = "["
     THEN h[Len(h)] = "]"
     ELSE \A i \in 1..Len(h) : h[i] \notin ForbiddenHost

\* the constructor throws a TypeError exactly when parsing fails
URLThrows(s) ==
  LET n == Normalize(s)
  IN StartsWith(n, HttpAuthority) /\ ~HostValid(HostOf(n))

\* fragment state: percent-encode the fragment percent-encode set
RECURSIVE EncodeFragment(_)
EncodeFragment(s) ==
  IF Len(s) = 0 THEN EmptyStr
  ELSE (IF s[1] \notin FragmentEncodeSet THEN <<s[1]>>
        ELSE IF s[1] = " " THEN <<"%", "2", "0">>
        ELSE IF s[1] = "<" THEN <<"%", "3", "C">>
        ELSE <<"%", "3", "E">>) \o EncodeFragment(Tail(s))

\* parsedUrl.hash : "#" and the encoded fragment, "" for no or empty fragment
Hash(s) ==
  LET n == Normalize(s)
      i == IndexOf(n, "#")
  IN IF i = 0 \/ i = Len(n) THEN EmptyStr
     ELSE <<"#">> \o EncodeFragment(Slice(n, i))

(***************************************************************************)
(* Percent codecs                                                          *)
(***************************************************************************)
HexDigits == {"0", "1", "2", "3", "4", "5", "6", "7", "8", "9",
              "a", "b", "c", "d", "e", "f", "A", "B", "C", "D", "E", "F"}

\* the character of the byte written %h1h2 (the bytes the inputs can form;
\* every byte is ASCII, so the UTF-8 decoding that follows is the identity)
ByteChar(h1, h2) ==
  CASE <<h1, h2>> = <<"2", "0">> -> " "
    [] <<h1, h2>> = <<"2", "5">> -> "%"
    [] <<h1, h2>> = <<"2", "6">> -> "&"
    [] <<h1, h2>> = <<"2", "B">> -> "+"
    [] <<h1, h2>> = <<"2", "C">> -> ","
    [] <<h1, h2>> = <<"3", "D">> -> "="
    [] <<h1, h2>> = <<"4", "1">> -> "A"
    [] <<h1, h2>> = <<"6", "1">> -> "a"
    [] <<h1, h2>> = <<"6", "2">> -> "b"
    [] <<h1, h2>> = <<"7", "4">> -> "t"
    [] OTHER -> "?"

\* is s[i] the '%' of a well-formed escape %XX
IsEscapeAt(s, i) ==
  /\ s[i] = "%"
  /\ i + 2 <= Len(s)
  /\ s[i + 1] \in HexDigits
  /\ s[i + 2] \in HexDigits

\* URL standard "percent-decode": a '%' not followed by two hex digits is
\* kept as it is
RECURSIVE PercentDecode(_)
PercentDecode(s) ==
  IF Len(s) = 0 THEN EmptyStr
  ELSE IF IsEscapeAt(s, 1)
       THEN <<ByteChar(s[2], s[3])>> \o PercentDecode(Slice(s, 3))
       ELSE <<s[1]>> \o PercentDecode(Tail(s))

\* application/x-www-form-urlencoded: '+' becomes a space, then percent-decode
PlusToSpace(s) == [i \in 1..Len(s) |-> IF s[i] = "+" THEN " " ELSE s[i]]

FormDecode(s) == PercentDecode(PlusToSpace(s))

\* decodeURIComponent throws a URIError on a '%' that does not start %XX
RECURSIVE DecodeThrows(_)
DecodeThrows(s) ==
  IF Len(s) = 0 THEN FALSE
  ELSE IF s[1] # "%" THEN DecodeThrows(Tail(s))
  ELSE IF IsEscapeAt(s, 1) THEN DecodeThrows(Slice(s, 3))
  ELSE TRUE

\* decodeURIComponent(s) when it does not throw: '+' is not touched
decodeURIComponent(s) == PercentDecode(s)

(***************************************************************************)
(* new URLSearchParams(init) and params.getAll(name)                       *)
(***************************************************************************)
\* one "name=value" piece: split at the first '=', both parts form-decoded
ParsePair(piece) ==
  LET i == IndexOf(piece, "=")
  IN IF i = 0
     THEN [name |-> FormDecode(piece), value |-> EmptyStr]
     ELSE [name |-> FormDecode(SubSeq(piece, 1, i - 1)),
           value |-> FormDecode(Slice(piece, i))]

\* a leading '?' is dropped, the rest is split on '&', empty pieces are skipped
URLSearchParams(init) ==
  LET body == IF Len(init) > 0 /\ init[1] = "?" THEN Tail(init) ELSE init
      pieces == SelectSeq(Split(body, "&"), LAMBDA q : Len(q) > 0)
  IN [i \in 1..Len(pieces) |-> ParsePair(pieces[i])]

\* faulty variant: params.get(name) in an array, the first value only
GetFirstOnly(params, name) ==
  LET hits == SelectSeq(params, LAMBDA q : q.name = name)
  IN IF Len(hits) = 0 THEN <<>> ELSE <<hits[1].value>>

\* params.getAll(name): the values of the pairs called name, in order
GetAll(params, name) ==
  LET hits == SelectSeq(params, LAMBDA q : q.name = name)
  IN [i \in 1..Len(hits) |-> hits[i].value]

(***************************************************************************)
(* Values and completions                                                  *)
(***************************************************************************)
Null == [kind |-> "null", texts |-> <<>>, flag |-> FALSE]
Undefined == [kind |-> "undefined", texts |-> <<>>, flag |-> FALSE]
Directives(t) == [kind |-> "directives", texts |-> t, flag |-> FALSE]
Boolean(b) == [kind |-> "boolean", texts |-> <<>>, flag |-> b]

\* a call either returns a value or throws
Return(v) == [raised |-> FALSE, value |-> v]
Throw == [raised |-> TRUE, value |-> Undefined]

(***************************************************************************)
(* parseSTTFFromURL                                                        *)
(***************************************************************************)
STTFPrefix == <<"#", ":", "~", ":">>
TextKey == <<"t", "e", "x", "t">>

\* texts.map(value => { try { decodeURIComponent } catch { value } })
DecodeEach(texts) ==
  [i \in 1..Len(texts) |->
     IF DecodeThrows(texts[i]) THEN texts[i] ELSE decodeURIComponent(texts[i])]

\* faulty variant: the startsWith("#:~:") test is missing
ParseBodyNoPrefixTest(u) ==
  IF URLThrows(u) THEN Throw
  ELSE LET texts == GetAll(URLSearchParams(Slice(Hash(u), 4)), TextKey)
       IN IF Len(texts) = 0 THEN Return(Null)
          ELSE Return(Directives(DecodeEach(texts)))

\* faulty variant: the texts.length === 0 test is missing
ParseBodyNoLengthTest(u) ==
  IF URLThrows(u) THEN Throw
  ELSE LET hash == Hash(u)
       IN IF ~StartsWith(hash, STTFPrefix) THEN Return(Null)
          ELSE Return(Directives(DecodeEach(
                 GetAll(URLSearchParams(Slice(hash, 4)), TextKey))))

\* the body of the try block
ParseBody(u) ==
  IF URLThrows(u) THEN Throw
  ELSE LET hash == Hash(u)
       IN IF ~StartsWith(hash, STTFPrefix) THEN Return(Null)
          ELSE LET directivePart == Slice(hash, 4)
                   params == URLSearchParams(directivePart)
                   texts == GetAll(params, TextKey)
               IN IF Len(texts) = 0 THEN Return(Null)
                  ELSE Return(Directives(DecodeEach(texts)))

\* faulty variant: the try block has no catch
ParseNoCatch(u) == ParseBody(u)

\* try { body } catch { return null }
parseSTTFFromURL(u) ==
  LET r == ParseBody(u)
  IN IF r.raised THEN Return(Null) ELSE r

\* utils.ts: the earlier variant, which tests the length after the map
getTextFragmentsFromURL(u) ==
  IF URLThrows(u) THEN Return(Null)
  ELSE LET hash == Hash(u)
       IN IF ~StartsWith(hash, STTFPrefix) THEN Return(Null)
          ELSE LET directivePart == Slice(hash, 4)
                   params == URLSearchParams(directivePart)
                   texts == DecodeEach(GetAll(params, TextKey))
               IN IF Len(texts) > 0 THEN Return(Directives(texts))
                  ELSE Return(Null)

(***************************************************************************)
(* Telemetry bus                                                           *)
(***************************************************************************)
NoSink == "null"
\* sinks a caller can register; the last one throws on every call
Sinks == {"capture", "other", "thrower"}
ThrowingSinks == {"thrower"}
\* an async sink: the call returns a promise, which is rejected later
RejectingSinks == {"rejecter"}
BusSinks == Sinks \cup RejectingSinks

\* sink(event): the invocation happens, then the sink returns, throws, or
\* returns a promise that is rejected
InvokeSink(snk, e) ==
  [raised |-> snk \in ThrowingSinks,
   rejected |-> snk \in RejectingSinks,
   calls |-> <<[sink |-> snk, event |-> e]>>]

\* faulty variant: no null test and no try around the call, which throws a
\* TypeError when the sink is null
emitUnguarded(snk, e) ==
  IF snk = NoSink THEN [raised |-> TRUE, rejected |-> FALSE, calls |-> <<>>]
  ELSE InvokeSink(snk, e)

\* faulty variant: the null test is kept, the try/catch is not
emitNoCatch(snk, e) ==
  IF snk = NoSink THEN [raised |-> FALSE, rejected |-> FALSE, calls |-> <<>>]
  ELSE InvokeSink(snk, e)

\* faulty variant: the sink is invoked a second time with the same event
emitTwice(snk, e) ==
  IF snk = NoSink THEN [raised |-> FALSE, rejected |-> FALSE, calls |-> <<>>]
  ELSE LET c == InvokeSink(snk, e)
       IN [raised |-> FALSE, rejected |-> c.rejected,
           calls |-> c.calls \o c.calls]

\* emitEvent: no sink, no call; a throw of the sink is caught by the try.
\* The value the sink returns is dropped: a promise it returns is neither
\* awaited nor given a handler, so its rejection stays unhandled
emitEvent(snk, e) ==
  IF snk = NoSink THEN [raised |-> FALSE, rejected |-> FALSE, calls |-> <<>>]
  ELSE LET c == InvokeSink(snk, e)
       IN [raised |-> FALSE, rejected |-> c.rejected, calls |-> c.calls]

\* faulty variant: a sink that was invoked and threw is unregistered
sinkDroppedOnFailure(snk, invoked) ==
  IF invoked # <<>> /\ snk \in ThrowingSinks THEN NoSink ELSE snk

\* the slot after emitEvent made the calls invoked: emitEvent reads sink and
\* never assigns it
sinkAfterEmit(snk, invoked) == snk

\* faulty variant: registering the sink the bus already holds clears the slot
registerClearsSame(snk, f) == IF snk = f THEN NoSink ELSE f

\* faulty variant: a sink already registered is kept
registerKeepFirst(snk, f) == IF snk = NoSink THEN f ELSE snk

\* registerTelemetrySink: sink = fn
registerTelemetrySink(snk, f) == f

(***************************************************************************)
(* Detection facade                                                        *)
(***************************************************************************)
PathUndefined == [defined |-> FALSE, val |-> ""]
PathOf(p) == [defined |-> TRUE, val |-> p]

Semicolon == <<";">>

\* faulty variant: the directives are joined with the default separator ','
STTFEventCommaJoined(fragments, p, t) ==
  [kind |-> "XS_LEAK", level |-> "INFO", vector |-> "STTF", path |-> p,
   detail |-> Join(fragments, <<",">>), timestamp |-> t]

\* the event literal of extractSTTFDirectives
STTFEvent(fragments, p, t) ==
  [kind |-> "XS_LEAK", level |-> "INFO", vector |-> "STTF", path |-> p,
   detail |-> Join(fragments, Semicolon), timestamp |-> t]

\* faulty variant: the event is built but never handed to emitEvent
extractWithoutEmit(u, p, snk, t) ==
  LET fragments == parseSTTFFromURL(u)
  IN [raised |-> FALSE, value |-> Boolean(fragments.value.kind # "null"),
      rejected |-> FALSE, calls |-> <<>>]

\* extractSTTFDirectives(url, path) with the bus holding snk at time t
extractSTTFDirectives(u, p, snk, t) ==
  LET fragments == parseSTTFFromURL(u)
  IN IF fragments.raised
     THEN [raised |-> TRUE, value |-> Undefined, rejected |-> FALSE,
           calls |-> <<>>]
     ELSE IF fragments.value.kind = "null"
     THEN [raised |-> FALSE, value |-> Boolean(FALSE), rejected |-> FALSE,
           calls |-> <<>>]
     ELSE LET e == emitEvent(snk, STTFEvent(fragments.value.texts, p, t))
          IN IF e.raised
             THEN [raised |-> TRUE, value |-> Undefined,
                   rejected |-> e.rejected, calls |-> e.calls]
             ELSE [raised |-> FALSE, value |-> Boolean(TRUE),
                   rejected |-> e.rejected, calls |-> e.calls]

(***************************************************************************)
(* Express adapter                                                         *)
(***************************************************************************)
\* an option that is given with a value, or left out
Given(v) == [given |-> TRUE, value |-> v]
NotGiven == [given |-> FALSE]

\* an AegisExpressOptions object
AegisExpressOptions(telemetry, enableSTTFExtraction) ==
  [telemetry |-> telemetry, enableSTTFExtraction |-> enableSTTFExtraction]

\* faulty variant: the telemetry option is registered even when it is left
\* out, which empties the slot
aegisRegistersAlways(options, snk) ==
  [sink |-> IF options.telemetry.given
            THEN registerTelemetrySink(snk, options.telemetry.value)
            ELSE NoSink,
   middleware |->
     [options |-> options,
      enableSTTFExtraction |->
        IF options.enableSTTFExtraction.given
        THEN options.enableSTTFExtraction.value ELSE FALSE]]

\* faulty variant: extraction is on unless it is switched off
aegisExtractsByDefault(options, snk) ==
  [sink |-> IF options.telemetry.given
            THEN registerTelemetrySink(snk, options.telemetry.value)
            ELSE snk,
   middleware |->
     [options |-> options,
      enableSTTFExtraction |->
        IF options.enableSTTFExtraction.given
        THEN options.enableSTTFExtraction.value ELSE TRUE]]

\* aegis(options) with the bus holding snk: the sink the bus holds afterwards
\* and the closure returned, which captures enableSTTFExtraction
aegis(options, snk) ==
  [sink |-> IF options.telemetry.given
            THEN registerTelemetrySink(snk, options.telemetry.value)
            ELSE snk,
   middleware |->
     [options |-> options,
      enableSTTFExtraction |->
        IF options.enableSTTFExtraction.given
        THEN options.enableSTTFExtraction.value ELSE FALSE]]

\* the detector was not called
NotCalled ==
  [raised |-> FALSE, value |-> Undefined, rejected |-> FALSE, calls |-> <<>>]

\* try { ... } catch { }: what the block throws is dropped
catchAll(r) == [r EXCEPT !.raised = FALSE]

\* faulty variant: next() is called inside the if block
aegisMiddlewareNextInsideIf(closure, u, p, snk, t) ==
  [tried |-> IF closure.enableSTTFExtraction
             THEN catchAll(extractSTTFDirectives(u, p, snk, t))
             ELSE NotCalled,
   nexts |-> IF closure.enableSTTFExtraction THEN 1 ELSE 0]

\* aegisMiddleware(req, _res, next) of a closure, for req.originalUrl = u and
\* req.path = p: what the guarded call of the detector did, then next()
aegisMiddleware(closure, u, p, snk, t) ==
  [tried |-> IF closure.enableSTTFExtraction
             THEN catchAll(extractSTTFDirectives(u, p, snk, t))
             ELSE NotCalled,
   nexts |-> 1]

(***************************************************************************)
(* Inputs                                                                  *)
(***************************************************************************)
Page == <<"/", "p">>
Amp == <<"&">>
TextA == <<"t", "e", "x", "t", "=", "a">>
TextB == <<"t", "e", "x", "t", "=", "b">>
TextEmpty == <<"t", "e", "x", "t", "=">>
OtherKeyA == <<"T", "e", "x", "t", "=", "a">>

\* '&'-separated pieces the parser's fragments are built from
Pieces ==
  { TextA, TextB, TextEmpty, OtherKeyA,
    <<"t", "e", "x", "t">>,
    <<"x", "=", "a">>,
    <<"%", "7", "4", "e", "x", "t", "=", "a">>,
    <<"t", "e", "x", "t", "=", "a", " ", "b">>,
    <<"t", "e", "x", "t", "=", "a", "+", "b">>,
    <<"t", "e", "x", "t", "=", "%", "2", "5", "4", "1">>,
    <<"t", "e", "x", "t", "=", "%", "z", "z">>,
    <<"t", "e", "x", "t", "=", "%", "4", "1", "%", "z", "z">>,
    EmptyStr }

\* the pieces the facade's fragments are built from
FacadePieces == {TextA, TextB, OtherKeyA}

\* the lists of at most MaxPairs pieces
PieceLists(ps) == UNION { [1..k -> ps] : k \in 0..MaxPairs }

\* URLs with an STTF-prefixed fragment
STTFUrls(ps) == { Page \o STTFPrefix \o Join(l, Amp) : l \in PieceLists(ps) }

\* URLs without one, absolute URLs and URLs that do not resolve
OtherUrls ==
  { Page,
    Page \o <<"#">>,
    Page \o <<"#", "s">>,
    Page \o <<"#", ":", "~">>,
    Page \o <<"#", "s", ":", "~", ":">> \o TextA,
    Page \o <<"#", "s", "e", "c", "&">> \o TextA,
    Page \o <<"#", "\t", ":", "~", ":">> \o TextA,
    Page \o <<"?", ":", "~", ":">> \o TextA,
    Page \o STTFPrefix \o TextEmpty,
    <<" ">> \o Page \o STTFPrefix \o TextA \o <<" ">>,
    <<"n", "o", "t", " ", "a", " ", "u", "r", "l">>,
    HttpAuthority \o <<"a", "/">> \o STTFPrefix \o TextA,
    HttpAuthority \o STTFPrefix \o TextA,
    HttpAuthority \o <<"[">> \o STTFPrefix \o TextA }

\* the urls handed to the parser alone, and to the facade
Urls == STTFUrls(Pieces) \cup OtherUrls
FacadeUrls == STTFUrls(FacadePieces) \cup OtherUrls

Paths == {PathUndefined, PathOf("/p")}

NoEvent ==
  [kind |-> "", level |-> "", vector |-> "", path |-> PathUndefined,
   detail |-> EmptyStr, timestamp |-> 0]

\* events a caller hands to emitEvent directly
Events(t) ==
  { [kind |-> "XS_LEAK", level |-> l, vector |-> "STTF", path |-> p,
     detail |-> <<"a">>, timestamp |-> t] :
    l \in {"INFO", "ERROR"}, p \in {PathOf("/p")} }

\* the urls the bus is exercised with: one with directives, one without
BusUrls == {Page, Page \o STTFPrefix \o TextA}

\* the originalUrl of a request: no fragment, one directive, two directives
RequestUrls ==
  {Page, Page \o STTFPrefix \o TextA,
   Page \o STTFPrefix \o TextA \o Amp \o TextB}

\* the options of the adapter: telemetry left out, a sink that returns, a
\* sink that throws; enableSTTFExtraction left out, true, false
ExpressSinks == {"capture", "thrower"}
ExpressOptions ==
  { AegisExpressOptions(t, x) :
      t \in {NotGiven} \cup { Given(f) : f \in ExpressSinks },
      x \in {NotGiven, Given(TRUE), Given(FALSE)} }

(***************************************************************************)
(* Mitigation controller: the hook useSTTFProtection.  A mount of the hook *)
(* is a record: its props, its two refs, whether its last effect run       *)
(* returned a cleanup, and the asynchronous run execute() it started.  A   *)
(* document is a record: its location, its lazy images, its text nodes and *)
(* the elements the controller has inserted.                               *)
(***************************************************************************)
\* useAegis was not called: the hook is used directly
NoConfig == [used |-> FALSE]

\* onDetected: not given, a callback that returns, a callback that throws
Callbacks == {"none", "returns", "throws"}

\* the options of one behaviour, noiseBudgetMs in ticks of the clock
Options(sh, cu, b, cb) ==
  [used |-> TRUE, showHighlight |-> sh, enableCopyUI |-> cu,
   noiseBudgetMs |-> b, onDetected |-> cb]

\* a document: lazy are the images with loading="lazy", complete the images
\* whose complete flag is set, text the visible text nodes in tree order
Document(href, lazy, complete, text) ==
  [href |-> href, lazy |-> lazy, complete |-> complete, text |-> text,
   marks |-> 0, copyUI |-> 0]

\* the refs and the effect of a mount before its first effect run
FreshMount(d) ==
  [doc |-> d, mounted |-> TRUE, enabled |-> FALSE,
   hasExecuted |-> FALSE, highlightRef |-> "null", cleanup |-> FALSE,
   pc |-> "Idle", fragments |-> Null, pending |-> {}, failed |-> {},
   timer |-> "none", elapsed |-> 0, duration |-> 0, rejected |-> FALSE,
   detected |-> <<>>, trace |-> <<>>]

Did(c, labels) == [c EXCEPT !.trace = @ \o labels]

\* String.prototype.toLowerCase on the letters the inputs use
LowerChar(ch) ==
  CASE ch = "A" -> "a"
    [] ch = "B" -> "b"
    [] OTHER -> ch

toLowerCase(s) == [i \in 1..Len(s) |-> LowerChar(s[i])]

\* String.prototype.trim
trim(s) == StripTrailing(StripLeading(s))

\* String.prototype.indexOf(needle): the 0-based index of the first
\* occurrence, -1 when there is none
indexOfString(s, needle) ==
  LET hits == { i \in 1..(Len(s) - Len(needle) + 1) :
                  SubSeq(s, i, i + Len(needle) - 1) = needle }
  IN IF hits = {} THEN -1
     ELSE (CHOOSE i \in hits : \A j \in hits : i <= j) - 1

\* findTextInDocument: the first visible text node that holds the search
\* text, compared in lower case
findTextInDocument(dc, searchText) ==
  LET normalized == trim(toLowerCase(searchText))
      hits == { k \in 1..Len(dc.text) :
                  indexOfString(toLowerCase(dc.text[k]), normalized) # -1 }
  IN IF hits = {} THEN [found |-> FALSE, node |-> 0, offset |-> 0, length |-> 0]
     ELSE LET k == CHOOSE k \in hits : \A j \in hits : k <= j
          IN [found |-> TRUE, node |-> k,
              offset |-> indexOfString(toLowerCase(dc.text[k]), normalized),
              length |-> Len(searchText)]

\* faulty variant: the search text is the first directive up to its first
\* comma
firstDirectiveSplit(fragments) == Return(Split(fragments.texts[1], ",")[1])

\* step 5, fragments.split(','): fragments is the array the parser returned
\* and an array has no method split, so the call throws a TypeError
fragmentsSplit(fragments) == Throw

\* applyHighlight, scrollIntoView and showCopyUI of step 5
highlightMatch(c, dc) ==
  LET c1 == Did([c EXCEPT !.highlightRef = "attached",
                          !.pc = "ResolvedMatch"],
                <<"highlight", "scrollIntoView">>)
      d1 == [dc EXCEPT !.marks = @ + 1]
  IN IF opts.enableCopyUI
     THEN [inst |-> Did(c1, <<"copyUI">>), doc |-> [d1 EXCEPT !.copyUI = @ + 1]]
     ELSE [inst |-> c1, doc |-> d1]

\* execute() after the await of the noise phase
afterNoise(c, dc) ==
  IF c.fragments.kind = "null"
  THEN [inst |-> [c EXCEPT !.pc = "ResolvedNoMatch"], doc |-> dc]
  ELSE LET searchText == fragmentsSplit(c.fragments)
       IN IF searchText.raised
          THEN [inst |-> [c EXCEPT !.pc = "Failed", !.rejected = TRUE],
                doc |-> dc]
          ELSE IF findTextInDocument(dc, searchText.value).found
                  /\ opts.showHighlight
          THEN highlightMatch(c, dc)
          ELSE [inst |-> [c EXCEPT !.pc = "ResolvedNoMatch"], doc |-> dc]

\* the race of loadAllResources is won: the await returns
noiseEnds(c, dc) ==
  afterNoise(Did([c EXCEPT !.duration = c.elapsed, !.timer = "done"],
                 <<"noiseEnd">>), dc)

\* faulty variant: only Promise.all is awaited, without the race against the
\* timer, so that the phase lasts until every load has settled
loadAllResourcesNoTimer(c, dc) ==
  LET awaited == dc.lazy \ dc.complete
      c1 == Did([c EXCEPT !.pc = "NoisePhase", !.pending = awaited,
                          !.elapsed = 0],
                <<"eager", "noiseStart">>)
      d1 == [dc EXCEPT !.lazy = {}]
  IN IF awaited = {} THEN noiseEnds(c1, d1) ELSE [inst |-> c1, doc |-> d1]

\* loadAllResources up to its await: every lazy image is made eager, the
\* incomplete ones are awaited, in a race against the timer.  With nothing
\* to await the race is won at once
loadAllResources(c, dc) ==
  LET awaited == dc.lazy \ dc.complete
      c1 == Did([c EXCEPT !.pc = "NoisePhase", !.pending = awaited,
                          !.timer = "armed", !.elapsed = 0],
                <<"eager", "noiseStart">>)
      d1 == [dc EXCEPT !.lazy = {}]
  IN IF awaited = {} THEN noiseEnds(c1, d1) ELSE [inst |-> c1, doc |-> d1]

\* faulty variant: the highlight work of step 5 is done before the noise
\* phase, with the first directive as the search text
executeHighlightFirst(c, dc) ==
  LET parsed == parseSTTFFromURL(dc.href).value
      c1 == Did([c EXCEPT !.fragments = parsed], <<"scrollTop", "parse">>)
  IN IF parsed.kind = "null" THEN loadAllResources(c1, dc)
     ELSE IF findTextInDocument(dc, parsed.texts[1]).found
             /\ opts.showHighlight
     THEN LET h == highlightMatch(c1, dc)
          IN loadAllResources(h.inst, h.doc)
     ELSE loadAllResources(c1, dc)

\* faulty variant: the document is searched before the noise phase, and the
\* noise phase is run only when the text was found
executeSearchFirst(c, dc) ==
  LET parsed == parseSTTFFromURL(dc.href).value
      c1 == Did([c EXCEPT !.fragments = parsed], <<"scrollTop", "parse">>)
  IN IF parsed.kind = "null" THEN loadAllResources(c1, dc)
     ELSE IF findTextInDocument(dc, parsed.texts[1]).found
     THEN loadAllResources(c1, dc)
     ELSE [inst |-> [c1 EXCEPT !.pc = "ResolvedNoMatch"], doc |-> dc]

\* step 3, onDetected?.(fragments): the callback gets the array the parser
\* returned
callOnDetected(c, fragments) ==
  Did([c EXCEPT !.detected = Append(@, fragments.texts)], <<"onDetected">>)

\* faulty variant: the callback gets the first directive only
executeDetectsFirstOnly(c, dc) ==
  LET parsed == parseSTTFFromURL(dc.href).value
      c1 == Did([c EXCEPT !.fragments = parsed], <<"scrollTop", "parse">>)
      c2 == Did([c1 EXCEPT !.detected = Append(@, <<parsed.texts[1]>>)],
                <<"onDetected">>)
  IN IF parsed.kind = "null" THEN loadAllResources(c1, dc)
     ELSE IF opts.onDetected = "none" THEN loadAllResources(c1, dc)
     ELSE IF opts.onDetected = "throws"
     THEN [inst |-> [c2 EXCEPT !.pc = "Failed", !.rejected = TRUE],
           doc |-> dc]
     ELSE loadAllResources(c2, dc)

\* execute() up to its first await: steps 1 to 4.  A throw of onDetected
\* rejects the promise of execute(), which nobody handles
execute(c, dc) ==
  LET parsed == parseSTTFFromURL(dc.href).value
      c1 == Did([c EXCEPT !.fragments = parsed], <<"scrollTop", "parse">>)
  IN IF parsed.kind = "null" THEN loadAllResources(c1, dc)
     ELSE IF opts.onDetected = "none" THEN loadAllResources(c1, dc)
     ELSE IF opts.onDetected = "throws"
     THEN [inst |-> [callOnDetected(c1, parsed) EXCEPT
                       !.pc = "Failed", !.rejected = TRUE],
           doc |-> dc]
     ELSE loadAllResources(callOnDetected(c1, parsed), dc)

\* faulty variant: the guard is tested but never set
effectGuardNeverSet(c, dc, en) ==
  LET c1 == [c EXCEPT !.enabled = en]
  IN IF ~en \/ c.hasExecuted
     THEN [inst |-> [c1 EXCEPT !.cleanup = FALSE], doc |-> dc]
     ELSE execute([c1 EXCEPT !.cleanup = TRUE], dc)

\* faulty variant: the guard is a value shared by every mount
effectGuardShared(c, dc, en) ==
  LET c1 == [c EXCEPT !.enabled = en]
  IN IF ~en \/ c.hasExecuted \/ \E m \in 1..cur : inst[m].hasExecuted
     THEN [inst |-> [c1 EXCEPT !.cleanup = FALSE], doc |-> dc]
     ELSE execute([c1 EXCEPT !.hasExecuted = TRUE, !.cleanup = TRUE], dc)

\* faulty variant: the guard is consumed by a run of the effect with enabled
\* false
effectGuardConsumedWhenDisabled(c, dc, en) ==
  LET c1 == [c EXCEPT !.enabled = en]
  IN IF c.hasExecuted
     THEN [inst |-> [c1 EXCEPT !.cleanup = FALSE], doc |-> dc]
     ELSE IF ~en
     THEN [inst |-> [c1 EXCEPT !.hasExecuted = TRUE, !.cleanup = FALSE],
           doc |-> dc]
     ELSE execute([c1 EXCEPT !.hasExecuted = TRUE, !.cleanup = TRUE], dc)

\* the effect body: the guard, then execute(), then the cleanup is returned
effect(c, dc, en) ==
  LET c1 == [c EXCEPT !.enabled = en]
  IN IF ~en \/ c.hasExecuted
     THEN [inst |-> [c1 EXCEPT !.cleanup = FALSE], doc |-> dc]
     ELSE execute([c1 EXCEPT !.hasExecuted = TRUE, !.cleanup = TRUE], dc)

\* the cleanup the last effect run returned, if it returned one: the mark of
\* highlightRef is unwrapped when it is in the document, every copy
\* affordance of the document is removed
cleanup(c, dc) ==
  IF ~c.cleanup THEN [inst |-> c, doc |-> dc]
  ELSE [inst |-> Did([c EXCEPT !.cleanup = FALSE,
                               !.highlightRef =
                                  IF @ = "attached" THEN "detached" ELSE @],
                     <<"cleanup">>),
        doc |-> [dc EXCEPT !.marks =
                             IF c.highlightRef = "attached" THEN @ - 1 ELSE @,
                           !.copyUI = 0]]

\* the click handler of the copy affordance for the dismiss button: the
\* affordance is removed and the mark, when it is in the document, is
\* replaced by its content; highlightRef keeps pointing to the mark.  The
\* listener is attached by showCopyUI only
dismiss(c, dc) ==
  [inst |-> Did([c EXCEPT !.highlightRef =
                            IF @ = "attached" THEN "detached" ELSE @],
                <<"dismiss">>),
   doc |-> [dc EXCEPT !.copyUI = IF @ > 0 THEN @ - 1 ELSE @,
                      !.marks =
                        IF c.highlightRef = "attached" THEN @ - 1 ELSE @]]

\* onload or onerror of an awaited image: its promise is resolved, and with
\* it Promise.all when it was the last one
imageSettles(c, dc, i, how) ==
  LET c1 == [c EXCEPT !.pending = @ \ {i},
                      !.failed = IF how = "error" THEN @ \cup {i} ELSE @]
      d1 == [dc EXCEPT !.complete =
                         IF how = "load" THEN @ \cup {i} ELSE @]
  IN IF c1.pending = {} THEN noiseEnds(c1, d1)
     ELSE [inst |-> c1, doc |-> d1]

\* the callback of setTimeout(resolve, noiseBudgetMs): the race is won
timerFires(c, dc) == noiseEnds(c, dc)

\* one tick of the clock while the race is open
timePasses(c, dc) == [inst |-> [c EXCEPT !.elapsed = @ + 1], doc |-> dc]

\* a render with changed dependencies: the cleanup of the last effect run,
\* then the effect body
rerender(c, dc, en) ==
  LET k == cleanup(c, dc)
  IN effect(k.inst, k.doc, en)

\* the unmount: the cleanup of the last effect run
unmount(c, dc) ==
  LET k == cleanup(c, dc)
  IN [inst |-> [k.inst EXCEPT !.mounted = FALSE], doc |-> k.doc]

\* the inputs of the controller
Locations == {Page, Page \o STTFPrefix \o TextA \o Amp \o TextB}
TextWithA == << <<"x", " ", "A", "b">> >>
TextWithoutA == << <<"x", " ", "b">> >>
\* the copy affordance is shown on a highlight only
OptionSets ==
  { o \in { Options(sh, cu, b, cb) :
              sh \in BOOLEAN, cu \in BOOLEAN, b \in 0..MaxBudget,
              cb \in Callbacks } :
      o.enableCopyUI => o.showHighlight }
Documents(hrefs, texts) ==
  { d \in { Document(h, 1..n, 1..k, t) :
              h \in hrefs, n \in 0..MaxImages, k \in 0..1, t \in texts } :
      d.complete \subseteq d.lazy }

(***************************************************************************)
(* useAegis.ts: the hook that resolves a configuration and wires the       *)
(* telemetry to the controller.  The dev flag only adds console output and *)
(* is left out                                                             *)
(***************************************************************************)
Modes == {"strict", "balanced", "permissive"}
NoSTTF == [given |-> FALSE]

\* an STTFConfig object
STTFConfig(en, sh, cu, ms) ==
  [given |-> TRUE, enabled |-> en, showHighlight |-> sh,
   enableCopyUI |-> cu, noiseBudgetMs |-> ms]

MODE_PRESETS ==
  [mode \in Modes |->
     CASE mode = "strict" -> STTFConfig(TRUE, TRUE, TRUE, 500)
       [] mode = "balanced" -> STTFConfig(TRUE, TRUE, TRUE, 300)
       [] mode = "permissive" -> STTFConfig(TRUE, FALSE, FALSE, 0)]

\* the telemetry option: not given; a function that returns or throws; an
\* endpoint where navigator.sendBeacon exists and queues the request, refuses
\* it (returns false) or rejects the URL (TypeError); an endpoint where it
\* does not exist and the promise of fetch is fulfilled or rejected
Telemetries ==
  {"undefined", "handlerReturns", "handlerThrows", "beaconQueued",
   "beaconRefused", "beaconInvalid", "fetchResolves", "fetchRejects"}

\* handleTelemetry(event): what leaves it and whether the event arrived
handleTelemetry(telemetry) ==
  [raised |-> telemetry = "beaconInvalid",
   delivered |-> telemetry \in
                   {"handlerReturns", "beaconQueued", "fetchResolves"}]

\* the mode of a configuration, 'balanced' when none is given
modeOf(cfg) == IF cfg.mode = "undefined" THEN "balanced" ELSE cfg.mode

\* const sttfConfig = customSTTF || MODE_PRESETS[mode]
sttfConfig(cfg) ==
  IF cfg.sttf.given THEN cfg.sttf ELSE MODE_PRESETS[modeOf(cfg)]

\* the clock of the controller ticks every TickMs milliseconds
Ticks(ms) == ms \div TickMs

\* the options useAegis passes to useSTTFProtection; onDetected is the inline
\* callback, which throws exactly when handleTelemetry does
useAegis(cfg) ==
  Options(sttfConfig(cfg).showHighlight, sttfConfig(cfg).enableCopyUI,
          Ticks(sttfConfig(cfg).noiseBudgetMs),
          IF handleTelemetry(cfg.telemetry).raised THEN "throws"
          ELSE "returns")

\* the enabled option useAegis passes
enabledOf(cfg) == sttfConfig(cfg).enabled

AegisConfig(mode, sttf, telemetry) ==
  [used |-> TRUE, mode |-> mode, sttf |-> sttf, telemetry |-> telemetry]

\* fine-grained settings that differ from every preset
CustomSTTF ==
  {STTFConfig(TRUE, FALSE, FALSE, 100), STTFConfig(FALSE, TRUE, TRUE, 300)}

\* the configurations of the behaviours: every mode alone, a mode with and
\* without fine-grained settings, every telemetry with the defaults
Configs ==
  { AegisConfig(mo, NoSTTF, "undefined") : mo \in Modes \cup {"undefined"} }
  \cup { AegisConfig(mo, s, "undefined") :
           mo \in {"undefined", "strict"}, s \in CustomSTTF }
  \cup { AegisConfig("undefined", NoSTTF, t) : t \in Telemetries }

(***************************************************************************)
(* No page-view: the core used on its own, as a server does                *)
(***************************************************************************)
NoView ==
  /\ config = NoConfig
  /\ opts = [used |-> FALSE]
  /\ inst = <<>>
  /\ doc = <<>>
  /\ cur = 0

(***************************************************************************)
(* State machine: the url and the path a run works on are drawn at the     *)
(* start, the calls are made in any order and any number of times          *)
(***************************************************************************)
\* module load: let sink = null, nothing called yet
Loaded ==
  /\ sink = NoSink
  /\ prev = NoSink
  /\ now = 0
  /\ op = "init"
  /\ fn = NoSink
  /\ event = NoEvent
  /\ result = Undefined
  /\ raised = FALSE
  /\ calls = <<>>
  /\ unhandled = FALSE
  /\ mws = <<>>
  /\ mw = 0
  /\ nexts = 0

Init ==
  /\ Loaded
  /\ url \in FacadeUrls
  /\ path \in Paths
  /\ NoView

\* registerTelemetrySink(f)
Register(f) ==
  /\ sink' = registerTelemetrySink(sink, f)
  /\ prev' = sink
  /\ op' = "register"
  /\ fn' = f
  /\ event' = NoEvent
  /\ result' = Undefined
  /\ raised' = FALSE
  /\ calls' = <<>>
  /\ unhandled' = FALSE
  /\ UNCHANGED <<now, url, path>>
  /\ UNCHANGED <<viewVars, expressVars>>

\* emitEvent(e)
Emit(e) ==
  LET r == emitEvent(sink, e)
  IN /\ op' = "emit"
     /\ event' = e
     /\ result' = Undefined
     /\ raised' = r.raised
     /\ calls' = r.calls
     /\ unhandled' = r.rejected
     /\ fn' = NoSink
     /\ sink' = sinkAfterEmit(sink, r.calls)
     /\ UNCHANGED <<prev, now, url, path>>
     /\ UNCHANGED <<viewVars, expressVars>>

\* parseSTTFFromURL(url)
Parse ==
  LET r == parseSTTFFromURL(url)
  IN /\ op' = "parse"
     /\ result' = r.value
     /\ raised' = r.raised
     /\ calls' = <<>>
     /\ unhandled' = FALSE
     /\ fn' = NoSink
     /\ event' = NoEvent
     /\ UNCHANGED <<sink, prev, now, url, path>>
     /\ UNCHANGED <<viewVars, expressVars>>

\* getTextFragmentsFromURL(url)
GetTextFragments ==
  LET r == getTextFragmentsFromURL(url)
  IN /\ op' = "getTextFragments"
     /\ result' = r.value
     /\ raised' = r.raised
     /\ calls' = <<>>
     /\ unhandled' = FALSE
     /\ fn' = NoSink
     /\ event' = NoEvent
     /\ UNCHANGED <<sink, prev, now, url, path>>
     /\ UNCHANGED <<viewVars, expressVars>>

\* extractSTTFDirectives(url, path)
Detect ==
  LET r == extractSTTFDirectives(url, path, sink, now)
  IN /\ op' = "detect"
     /\ result' = r.value
     /\ raised' = r.raised
     /\ calls' = r.calls
     /\ unhandled' = r.rejected
     /\ fn' = NoSink
     /\ event' = NoEvent
     /\ sink' = sinkAfterEmit(sink, r.calls)
     /\ UNCHANGED <<prev, now, url, path>>
     /\ UNCHANGED <<viewVars, expressVars>>

\* time passes
Tick ==
  /\ now < MaxClock
  /\ now' = now + 1
  /\ UNCHANGED <<sink, prev, url, path, op, fn, event, result, raised, calls,
                 unhandled>>
  /\ UNCHANGED <<viewVars, expressVars>>

Next ==
  \/ \E f \in Sinks : Register(f)
  \/ \E e \in Events(now) : Emit(e)
  \/ Parse
  \/ GetTextFragments
  \/ Detect
  \/ Tick

Spec == Init /\ [][Next]_vars

(***************************************************************************)
(* The parser alone: any url, no sink, no path                             *)
(***************************************************************************)
InitParse ==
  /\ Loaded
  /\ url \in Urls
  /\ path = PathUndefined
  /\ NoView

NextParse ==
  \/ Parse
  \/ GetTextFragments

SpecParse == InitParse /\ [][NextParse]_vars

(***************************************************************************)
(* The bus with every kind of sink, an async one included                  *)
(***************************************************************************)
InitBus ==
  /\ Loaded
  /\ url \in BusUrls
  /\ path \in Paths
  /\ NoView

NextBus ==
  \/ \E f \in BusSinks : Register(f)
  \/ \E e \in Events(now) : Emit(e)
  \/ Parse
  \/ Detect
  \/ Tick

SpecBus == InitBus /\ [][NextBus]_vars

(***************************************************************************)
(* The page-view: the hook is mounted, re-rendered and unmounted, images   *)
(* settle, the timer fires and time passes, in any order                   *)
(***************************************************************************)
\* the document of a mount
DocOf(m) == doc[inst[m].doc]

\* a handler has run on each mount of ms, each on its own document: r[m] is
\* what it made of mount m and of the document of m
Step(ms, r) ==
  /\ inst' = [m \in DOMAIN inst |-> IF m \in ms THEN r[m].inst ELSE inst[m]]
  /\ doc' = [d \in DOMAIN doc |->
               IF \E m \in ms : inst[m].doc = d
               THEN r[CHOOSE m \in ms : inst[m].doc = d].doc
               ELSE doc[d]]
  /\ UNCHANGED <<config, opts, cur>>
  /\ UNCHANGED <<coreVars, expressVars>>

InitView ==
  /\ Loaded
  /\ url = EmptyStr
  /\ path = PathUndefined
  /\ config = NoConfig
  /\ opts \in OptionSets
  /\ doc \in { <<d>> : d \in Documents(Locations, {TextWithA}) }
  /\ inst = <<>>
  /\ cur = 0

\* the hook is mounted with enabled = en: fresh refs, first effect run
Mount(en) ==
  /\ cur < MaxMounts
  /\ cur > 0 => ~inst[cur].mounted
  /\ LET r == effect(FreshMount(1), doc[1], en)
     IN /\ inst' = Append(inst, r.inst)
        /\ doc' = [doc EXCEPT ![1] = r.doc]
  /\ cur' = cur + 1
  /\ UNCHANGED <<config, opts>>
  /\ UNCHANGED <<coreVars, expressVars>>

\* a render of the mounts ms that changes a dependency of the effect
Rerender(ms, en) ==
  /\ ms # {}
  /\ \A m \in ms : inst[m].mounted
  /\ Step(ms, [m \in ms |-> rerender(inst[m], DocOf(m), en)])

\* the mounts ms are unmounted
Unmount(ms) ==
  /\ ms # {}
  /\ \A m \in ms : inst[m].mounted
  /\ Step(ms, [m \in ms |-> unmount(inst[m], DocOf(m))])

\* image i loads or fails: the handler runs in every mount that awaits it
ImageSettles(ms, i, how) ==
  LET on == { m \in ms : inst[m].pc = "NoisePhase" /\ i \in inst[m].pending }
  IN /\ on # {}
     /\ Step(on, [m \in on |-> imageSettles(inst[m], DocOf(m), i, how)])

\* the timers that are due fire
TimerFires(ms) ==
  LET on == { m \in ms : /\ inst[m].pc = "NoisePhase"
                         /\ inst[m].timer = "armed"
                         /\ inst[m].elapsed >= opts.noiseBudgetMs }
  IN /\ on # {}
     /\ Step(on, [m \in on |-> timerFires(inst[m], DocOf(m))])

\* time passes for every open noise phase; a timer that is due fires before
\* more time passes
TimePasses ==
  LET on == { m \in 1..cur : inst[m].pc = "NoisePhase" }
  IN /\ on # {}
     /\ \A m \in on :
          /\ inst[m].timer = "armed" => inst[m].elapsed < opts.noiseBudgetMs
          /\ inst[m].timer # "armed" => inst[m].elapsed < MaxBudget
     /\ Step(on, [m \in on |-> timePasses(inst[m], DocOf(m))])

NextView ==
  \/ \E en \in BOOLEAN : Mount(en)
  \/ \E en \in BOOLEAN : cur > 0 /\ Rerender({cur}, en)
  \/ cur > 0 /\ Unmount({cur})
  \/ \E m \in 1..cur, i \in 1..MaxImages, how \in {"load", "error"} :
       ImageSettles({m}, i, how)
  \/ \E m \in 1..cur : TimerFires({m})
  \/ TimePasses

SpecView == InitView /\ [][NextView]_vars

(***************************************************************************)
(* Two page-views side by side: the same location with directives, the     *)
(* same options and lazy images, the text of the first directive in the    *)
(* first document only.  Both hooks get the same renders, and the images   *)
(* and the timers of both behave alike at the same times                   *)
(***************************************************************************)
DirectiveLocations ==
  { h \in Locations : parseSTTFFromURL(h).value.kind = "directives" }

InitPair ==
  /\ Loaded
  /\ url = EmptyStr
  /\ path = PathUndefined
  /\ config = NoConfig
  /\ opts \in OptionSets
  /\ doc \in { <<d, [d EXCEPT !.text = TextWithoutA]>> :
                 d \in Documents(DirectiveLocations, {TextWithA}) }
  /\ inst = <<>>
  /\ cur = 0

\* both hooks are mounted with enabled = en
PairMount(en) ==
  /\ cur = 0
  /\ LET r1 == effect(FreshMount(1), doc[1], en)
         r2 == effect(FreshMount(2), doc[2], en)
     IN /\ inst' = <<r1.inst, r2.inst>>
        /\ doc' = <<r1.doc, r2.doc>>
  /\ cur' = 2
  /\ UNCHANGED <<config, opts>>
  /\ UNCHANGED <<coreVars, expressVars>>

NextPair ==
  \/ \E en \in BOOLEAN : PairMount(en)
  \/ \E en \in BOOLEAN : cur = 2 /\ Rerender({1, 2}, en)
  \/ cur = 2 /\ Unmount({1, 2})
  \/ \E i \in 1..MaxImages, how \in {"load", "error"} :
       cur = 2 /\ ImageSettles({1, 2}, i, how)
  \/ cur = 2 /\ TimerFires({1, 2})
  \/ TimePasses

SpecPair == InitPair /\ [][NextPair]_vars

(***************************************************************************)
(* Two page-views side by side on the same document content with the same  *)
(* options: the location of the first has no directives, the location of   *)
(* the second has.  Renders, image events, timers and clock as above       *)
(***************************************************************************)
InitBranch ==
  /\ Loaded
  /\ url = EmptyStr
  /\ path = PathUndefined
  /\ config = NoConfig
  /\ opts \in OptionSets
  /\ doc \in { <<[d EXCEPT !.href = Page], d>> :
                 d \in Documents(DirectiveLocations, {TextWithA}) }
  /\ inst = <<>>
  /\ cur = 0

SpecBranch == InitBranch /\ [][NextPair]_vars

(***************************************************************************)
(* The state machine of a server: middlewares are created and handle       *)
(* requests in any order; they share the bus of the core module            *)
(***************************************************************************)
InitExpress ==
  /\ Loaded
  /\ url = EmptyStr
  /\ path = PathUndefined
  /\ NoView

\* aegis(options)
Create(options) ==
  /\ Len(mws) < MaxMiddlewares
  /\ \E r \in {aegis(options, sink)} :
        /\ sink' = r.sink
        /\ mws' = Append(mws, r.middleware)
  /\ prev' = sink
  /\ op' = "create"
  /\ fn' = IF options.telemetry.given THEN options.telemetry.value
           ELSE NoSink
  /\ event' = NoEvent
  /\ result' = Undefined
  /\ raised' = FALSE
  /\ calls' = <<>>
  /\ unhandled' = FALSE
  /\ mw' = 0
  /\ nexts' = 0
  /\ UNCHANGED <<now, url, path>>
  /\ UNCHANGED viewVars

\* the middleware k handles a request with originalUrl u and path p
\* result is what the detector returned, undefined when it was not called
Handle(k, u, p) ==
  \E r \in {aegisMiddleware(mws[k], u, p, sink, now)} :
     /\ op' = "handle"
     /\ url' = u
     /\ path' = p
     /\ mw' = k
     /\ result' = r.tried.value
     /\ raised' = r.tried.raised
     /\ calls' = r.tried.calls
     /\ unhandled' = r.tried.rejected
     /\ nexts' = r.nexts
     /\ fn' = NoSink
     /\ event' = NoEvent
     /\ sink' = sinkAfterEmit(sink, r.tried.calls)
     /\ UNCHANGED <<prev, now, mws>>
     /\ UNCHANGED viewVars

NextExpress ==
  \/ \E options \in ExpressOptions : Create(options)
  \/ \E k \in 1..Len(mws), u \in RequestUrls, p \in Paths : Handle(k, u, p)

SpecExpress == InitExpress /\ [][NextExpress]_vars

(***************************************************************************)
(* The state machine of one page-view under useAegis: the configuration is *)
(* fixed, every render passes a new onDetected closure and so re-runs the  *)
(* effect                                                                  *)
(***************************************************************************)
InitAegis ==
  /\ Loaded
  /\ url = EmptyStr
  /\ path = PathUndefined
  /\ config \in Configs
  /\ opts = useAegis(config)
  /\ doc \in { <<d>> : d \in Documents(Locations, {TextWithA}) }
  /\ inst = <<>>
  /\ cur = 0

NextAegis ==
  \/ Mount(enabledOf(config))
  \/ cur > 0 /\ Rerender({cur}, enabledOf(config))
  \/ cur > 0 /\ Unmount({cur})
  \/ \E m \in 1..cur, i \in 1..MaxImages, how \in {"load", "error"} :
       ImageSettles({m}, i, how)
  \/ \E m \in 1..cur : TimerFires({m})
  \/ TimePasses

SpecAegis == InitAegis /\ [][NextAegis]_vars

(***************************************************************************)
(* What the claims speak of                                                *)
(***************************************************************************)
\* the fragment component of the resolved url: what follows its first '#'
FragmentOf(u) ==
  LET n == Normalize(u)
      i == IndexOf(n, "#")
  IN IF i = 0 THEN EmptyStr ELSE Slice(n, i)

\* the url resolves and its fragment begins with ":~:" directly after '#'
HasSTTFPrefix(u) == StartsWith(FragmentOf(u), Tail(STTFPrefix))

\* the key=value pairs of an STTF fragment, in order: key is the parsed key
\* of the pair, raw its value as the resolved url spells it
RECURSIVE PairsOf(_)
PairsOf(pieces) ==
  IF Len(pieces) = 0 THEN <<>>
  ELSE LET q == pieces[1]
           i == IndexOf(q, "=")
           kv == IF i = 0 THEN [key |-> FormDecode(q), raw |-> EmptyStr]
                 ELSE [key |-> FormDecode(SubSeq(q, 1, i - 1)),
                       raw |-> Slice(q, i)]
       IN (IF Len(q) = 0 THEN <<>> ELSE <<kv>>) \o PairsOf(Tail(pieces))

FragmentPairs(u) ==
  PairsOf(Split(EncodeFragment(Slice(FragmentOf(u), 3)), "&"))

\* the raw values of the pairs whose key is text, in order of occurrence
RECURSIVE RawOfText(_)
RawOfText(pairs) ==
  IF Len(pairs) = 0 THEN <<>>
  ELSE (IF pairs[1].key = TextKey THEN <<pairs[1].raw>> ELSE <<>>)
       \o RawOfText(Tail(pairs))

RawTextValues(u) == RawOfText(FragmentPairs(u))

\* what the parser yields for the url
Parsed(u) == parseSTTFFromURL(u).value

\* the directives joined with ';', built from the last one backwards
RECURSIVE SemiJoined(_)
SemiJoined(xs) ==
  IF Len(xs) = 0 THEN EmptyStr
  ELSE IF Len(xs) = 1 THEN xs[1]
  ELSE SemiJoined(SubSeq(xs, 1, Len(xs) - 1)) \o <<";">> \o xs[Len(xs)]

(***************************************************************************)
(* C1: one call of extractSTTFDirectives with a sink registered invokes    *)
(* that sink exactly once and returns true when the parser yields          *)
(* directives, and invokes nothing and returns false when it yields null.  *)
(***************************************************************************)
C1_DetectEmitsOncePerDetection ==
  (op = "detect" /\ sink # NoSink) =>
    /\ ~raised
    /\ IF Parsed(url).kind = "directives"
       THEN /\ result = Boolean(TRUE)
            /\ Len(calls) = 1
            /\ calls[1].sink = sink
       ELSE /\ Parsed(url).kind = "null"
            /\ result = Boolean(FALSE)
            /\ calls = <<>>

C1_Witness ==
  /\ op = "detect"
  /\ sink = "capture"
  /\ url = Page \o STTFPrefix \o TextA
  /\ result = Boolean(TRUE)
  /\ Len(calls) = 1

(***************************************************************************)
(* C2: the event extractSTTFDirectives emits has kind XS_LEAK, level INFO, *)
(* vector STTF, detail the parsed directives joined with ';' in url order  *)
(* and path the path of the caller, undefined when none was given.         *)
(***************************************************************************)
C2_EventShape ==
  op = "detect" =>
    \A i \in 1..Len(calls) :
      LET e == calls[i].event
      IN /\ e.kind = "XS_LEAK"
         /\ e.level = "INFO"
         /\ e.vector = "STTF"
         /\ e.detail = SemiJoined(Parsed(url).texts)
         /\ e.path = path
         /\ (path = PathUndefined => ~e.path.defined)

C2_Witness ==
  /\ op = "detect"
  /\ url = Page \o STTFPrefix \o TextA \o Amp \o TextB
  /\ path = PathOf("/p")
  /\ Len(calls) = 1
  /\ calls[1].event.detail = <<"a", ";", "b">>
  /\ calls[1].event.path = PathOf("/p")

(***************************************************************************)
(* C3: for a url whose fragment does not begin with ":~:" directly after   *)
(* '#' (or that has no fragment) the parser returns null, the detector     *)
(* returns false and no event reaches the sink.                            *)
(***************************************************************************)
C3_NoPrefixNoDetection ==
  ~HasSTTFPrefix(url) =>
    /\ (op \in {"parse", "getTextFragments"} => ~raised /\ result = Null)
    /\ (op = "detect" => ~raised /\ result = Boolean(FALSE) /\ calls = <<>>)

C3_Witness ==
  /\ op = "detect"
  /\ sink = "capture"
  /\ url = Page \o <<"#", "s", "e", "c", "&">> \o TextA
  /\ result = Boolean(FALSE)
  /\ calls = <<>>

(***************************************************************************)
(* C4: for an STTF-prefixed fragment the parser returns exactly the values *)
(* of the pairs whose key is text, in their order of occurrence; a pair    *)
(* with another key adds nothing and moves nothing.                        *)
(***************************************************************************)
\* the value the parser returns for one raw text value
ValueOf(raw) == DecodeEach(<<FormDecode(raw)>>)[1]

C5_EmptyDirectivesFiltered ==
  op = "parse" =>
    /\ (url = Page \o STTFPrefix \o TextEmpty => result = Null)
    /\ (result.kind = "directives" =>
          \A i \in 1..Len(result.texts) : result.texts[i] # EmptyStr)

(***************************************************************************)
(* C6: the parser never returns an empty sequence: a result that is not    *)
(* null holds at least one directive, and an STTF-prefixed fragment with   *)
(* no text key yields null.                                                *)
(***************************************************************************)
C6_NeverEmptySequence ==
  op \in {"parse", "getTextFragments"} =>
    /\ (result.kind = "directives" => Len(result.texts) >= 1)
    /\ (HasSTTFPrefix(url) /\ Len(RawTextValues(url)) = 0 => result = Null)

C6_Witness ==
  /\ op = "parse"
  /\ url = Page \o STTFPrefix \o OtherKeyA
  /\ result = Null

(***************************************************************************)
(* C7: the parser never throws: a url that does not resolve against the    *)
(* base yields null as a value.                                            *)
(***************************************************************************)
C7_ParseNeverThrows ==
  op = "parse" =>
    /\ ~raised
    /\ result.kind \in {"null", "directives"}
    /\ (URLThrows(url) => result = Null)

C7_Witness ==
  /\ op = "parse"
  /\ url = HttpAuthority \o <<"[">> \o STTFPrefix \o TextA
  /\ ~raised
  /\ result = Null

(***************************************************************************)
(* C8: a text value with malformed percent-encoding is returned in its raw *)
(* form, the call does not fail and does not return null, and every text   *)
(* value is still returned, in order.                                      *)
(***************************************************************************)
C8_MalformedValueKeptRaw ==
  (op = "parse" /\ HasSTTFPrefix(url) /\ ~URLThrows(url)
     /\ Len(RawTextValues(url)) > 0) =>
    LET raws == RawTextValues(url)
    IN /\ ~raised
       /\ result.kind = "directives"
       /\ Len(result.texts) = Len(raws)
       /\ \A i \in 1..Len(raws) :
            DecodeThrows(raws[i]) => result.texts[i] = raws[i]

(***************************************************************************)
(* C9: last registration wins: a registration makes its argument the one   *)
(* active sink, nothing but a registration changes the active sink, and    *)
(* every invocation goes to the active sink alone, never to a sink that    *)
(* was replaced.                                                           *)
(***************************************************************************)
C9_LastRegistrationWins ==
  [][/\ (op' = "register" => sink' = fn')
     /\ (sink' # sink => op' = "register" /\ prev' = sink)
     /\ \A i \in 1..Len(calls') : calls'[i].sink = sink'
     /\ Len(calls') <= 1]_vars

C9_Witness ==
  /\ op = "emit"
  /\ prev = "capture"
  /\ sink = "other"
  /\ calls = <<[sink |-> "other", event |-> event]>>

(***************************************************************************)
(* C10: emitEvent with no sink registered drops the event: it returns      *)
(* normally, invokes nothing and leaves the bus without a sink.            *)
(***************************************************************************)
C10_EmitWithoutSinkDrops ==
  [][(sink = NoSink /\ op' = "emit") =>
       /\ ~raised'
       /\ result' = Undefined
       /\ calls' = <<>>
       /\ sink' = NoSink]_vars

C10_Witness ==
  /\ op = "emit"
  /\ sink = NoSink
  /\ event \in Events(now)
  /\ ~raised
  /\ calls = <<>>

(***************************************************************************)
(* C11: a sink that throws never makes emitEvent or extractSTTFDirectives  *)
(* throw: emitEvent returns normally after the one invocation, and the     *)
(* detector still returns its boolean, true when directives are present.   *)
(***************************************************************************)
C11_SinkThrowContained ==
  (op \in {"emit", "detect"} /\ sink \in ThrowingSinks) =>
    /\ ~raised
    /\ (op = "emit" => result = Undefined /\ Len(calls) = 1)
    /\ (op = "detect" =>
          result = Boolean(Parsed(url).kind = "directives"))

C11_Witness ==
  /\ op = "detect"
  /\ sink = "thrower"
  /\ Parsed(url).kind = "directives"
  /\ calls # <<>>
  /\ calls[1].sink = "thrower"
  /\ ~raised
  /\ result = Boolean(TRUE)

(***************************************************************************)
(* C12: a rejection raised by the sink, the failure of an async sink, is   *)
(* caught and discarded by emitEvent: no call of the bus throws and none   *)
(* leaves a rejected promise without a handler.                            *)
(***************************************************************************)
C12_SinkRejectionDiscarded ==
  op \in {"emit", "detect"} => ~raised /\ ~unhandled

(***************************************************************************)
(* C13: emitEvent is the sole egress: an emit made while a sink is         *)
(* registered invokes that sink exactly once, with the event of that emit; *)
(* the one emit a detection makes does the same; a registration and a      *)
(* parse invoke nothing.                                                   *)
(***************************************************************************)
C13_EmitSoleEgress ==
  /\ (op = "emit" =>
        calls = IF sink = NoSink THEN <<>>
                ELSE <<[sink |-> sink, event |-> event]>>)
  /\ (op = "detect" =>
        IF sink # NoSink /\ Parsed(url).kind = "directives"
        THEN \E t \in 0..now :
               calls = <<[sink |-> sink,
                          event |-> STTFEvent(Parsed(url).texts, path, t)]>>
        ELSE calls = <<>>)
  /\ (op \in {"init", "register", "parse", "getTextFragments"} =>
        calls = <<>>)

C13_Witness ==
  /\ op = "emit"
  /\ prev = "thrower"
  /\ sink = "rejecter"
  /\ calls = <<[sink |-> "rejecter", event |-> event]>>

(***************************************************************************)
(* What the claims on the controller speak of                              *)
(***************************************************************************)
\* how often the controller did the action in the run of a mount
Count(tr, a) == Cardinality({ i \in 1..Len(tr) : tr[i] = a })

\* the place of the first occurrence of the action, 0 when there is none
FirstAt(tr, a) ==
  IF Count(tr, a) = 0 THEN 0
  ELSE CHOOSE i \in 1..Len(tr) :
         tr[i] = a /\ \A j \in 1..(i - 1) : tr[j] # a

\* the actions of a run up to the end of its noise phase
UpToNoiseEnd(tr) ==
  IF Count(tr, "noiseEnd") = 0 THEN tr
  ELSE SubSeq(tr, 1, FirstAt(tr, "noiseEnd"))

\* the first directive of the location is in the visible text of the document
TextOnPage(d) ==
  LET parsed == Parsed(doc[d].href)
  IN /\ parsed.kind = "directives"
     /\ findTextInDocument(doc[d], parsed.texts[1]).found

(***************************************************************************)
(* C14: within one mount, however often the effect is run again, scroll    *)
(* interception, parse, detection callback and noise phase each happen at  *)
(* most once.                                                              *)
(***************************************************************************)
C14_RunsAtMostOncePerMount ==
  \A m \in 1..cur :
    \A a \in {"scrollTop", "parse", "onDetected", "noiseStart"} :
      Count(inst[m].trace, a) <= 1

C14_Witness ==
  /\ cur = 1
  /\ inst[1].mounted
  /\ inst[1].enabled
  /\ Count(inst[1].trace, "cleanup") = 1
  /\ Count(inst[1].trace, "scrollTop") = 1
  /\ Count(inst[1].trace, "onDetected") = 1
  /\ Count(inst[1].trace, "noiseStart") = 1

(***************************************************************************)
(* C15: a mount made after an earlier mount has executed and been          *)
(* unmounted has a guard of its own: with enabled = true it executes the   *)
(* state machine again, from its first step.                               *)
(***************************************************************************)
C15_RemountExecutesAgain ==
  \A m \in 2..cur :
    (inst[m - 1].hasExecuted /\ ~inst[m - 1].mounted /\ inst[m].enabled) =>
      /\ inst[m].hasExecuted
      /\ Len(inst[m].trace) >= 2
      /\ SubSeq(inst[m].trace, 1, 2) = <<"scrollTop", "parse">>

C15_Witness ==
  /\ cur = 2
  /\ Count(inst[1].trace, "noiseStart") = 1
  /\ ~inst[1].mounted
  /\ inst[2].mounted
  /\ inst[2].enabled
  /\ Count(inst[2].trace, "scrollTop") = 1
  /\ Count(inst[2].trace, "noiseStart") = 1

(***************************************************************************)
(* C16: every run that passes the guard enters the noise phase, with and   *)
(* without directives in the location, whatever the detection callback     *)
(* does.                                                                   *)
(***************************************************************************)
C16_NoiseEnteredUnconditionally ==
  \A m \in 1..cur :
    inst[m].hasExecuted => Count(inst[m].trace, "noiseStart") = 1

C19_NoisePhaseEnds ==
  \A m \in 1..cur :
    inst[m].pc = "NoisePhase" =>
      /\ inst[m].timer = "armed"
      /\ inst[m].elapsed <= opts.noiseBudgetMs
      /\ inst[m].pending # {}
      /\ inst[m].pending \cap inst[m].failed = {}

C19_Witness ==
  /\ cur = 1
  /\ inst[1].pc # "NoisePhase"
  /\ Count(inst[1].trace, "noiseEnd") = 1
  /\ inst[1].failed = {1}
  /\ inst[1].pending = {2}
  /\ opts.noiseBudgetMs = 1
  /\ inst[1].duration = 1

(***************************************************************************)
(* C20: two runs with the same directives, options and lazy images, on a   *)
(* page that holds the search text and on one that does not, do the same   *)
(* actions up to the end of the noise phase, and their noise phases are    *)
(* open for the same time.                                                 *)
(***************************************************************************)
C20_MatchIndependentNoise ==
  cur = 2 =>
    /\ UpToNoiseEnd(inst[1].trace) = UpToNoiseEnd(inst[2].trace)
    /\ (inst[1].pc = "NoisePhase") = (inst[2].pc = "NoisePhase")
    /\ inst[1].elapsed = inst[2].elapsed
    /\ inst[1].duration = inst[2].duration

C20_Witness ==
  /\ cur = 2
  /\ TextOnPage(1)
  /\ ~TextOnPage(2)
  /\ Count(inst[1].trace, "noiseEnd") = 1
  /\ Count(inst[2].trace, "noiseEnd") = 1
  /\ inst[1].duration = 1
  /\ inst[2].duration = 1

(***************************************************************************)
(* C21: for the same document and noiseBudgetMs, a run whose location has  *)
(* no directives and a run whose location has directives do the same       *)
(* externally observable actions (scroll reset, eager-load forcing,        *)
(* waiting, egress through the detection callback) up to the end of the    *)
(* noise phase.                                                            *)
(***************************************************************************)
\* the actions of a run that can be observed from outside; the parse is not
Observable(tr) ==
  SelectSeq(tr, LAMBDA a :
    a \in {"scrollTop", "eager", "onDetected", "noiseStart", "noiseEnd"})

C21_BranchUniformity ==
  cur = 2 =>
    /\ Observable(UpToNoiseEnd(inst[1].trace))
         = Observable(UpToNoiseEnd(inst[2].trace))
    /\ (inst[1].pc = "NoisePhase") = (inst[2].pc = "NoisePhase")
    /\ inst[1].elapsed = inst[2].elapsed
    /\ inst[1].duration = inst[2].duration

(***************************************************************************)
(* C22: in a mount whose run started, the detection callback, when one is  *)
(* given, is invoked exactly once if the location carries directives, with *)
(* the full directive list in url order, and never if the location parses  *)
(* to null; no mount invokes it twice.                                     *)
(***************************************************************************)
C22_DetectedOncePerPageView ==
  \A m \in 1..cur :
    LET parsed == Parsed(DocOf(m).href)
    IN /\ Len(inst[m].detected) <= 1
       /\ Len(inst[m].detected) = Count(inst[m].trace, "onDetected")
       /\ (inst[m].hasExecuted /\ opts.onDetected # "none"
             /\ parsed.kind = "directives") =>
            inst[m].detected = <<parsed.texts>>
       /\ parsed.kind = "null" => inst[m].detected = <<>>

C22_Witness ==
  /\ cur = 1
  /\ inst[1].mounted
  /\ inst[1].pc = "NoisePhase"
  /\ Count(inst[1].trace, "cleanup") = 1
  /\ inst[1].detected = << <<(<<"a">>), (<<"b">>)>> >>

(***************************************************************************)
(* C23: when the location carries directives, showHighlight is on and the  *)
(* search text of the first directive is in the visible text of the        *)
(* document, the run reaches Resolved(match) after its noise phase: the    *)
(* text is wrapped in a highlight element and scrolled to.                 *)
(***************************************************************************)
C23_MatchIsHighlighted ==
  \A m \in 1..cur :
    (/\ Count(inst[m].trace, "noiseEnd") = 1
     /\ inst[m].fragments.kind = "directives"
     /\ opts.showHighlight
     /\ TextOnPage(inst[m].doc)) =>
      /\ inst[m].pc = "ResolvedMatch"
      /\ Count(inst[m].trace, "highlight") = 1
      /\ Count(inst[m].trace, "scrollIntoView") = 1

(***************************************************************************)
(* C24: a highlight element, a scroll-into-view or a copy affordance is    *)
(* produced only if the location carried directives, the search text was   *)
(* found and showHighlight is on; with no directives, text not found or    *)
(* showHighlight off the run ends after its noise phase with none of them  *)
(* and without failing.                                                    *)
(***************************************************************************)
C24_HighlightOnlyOnMatch ==
  \A m \in 1..cur :
    LET work == Count(inst[m].trace, "highlight")
                  + Count(inst[m].trace, "scrollIntoView")
                  + Count(inst[m].trace, "copyUI")
        match == /\ inst[m].fragments.kind = "directives"
                 /\ TextOnPage(inst[m].doc)
                 /\ opts.showHighlight
    IN /\ work > 0 => match
       /\ (Count(inst[m].trace, "noiseEnd") = 1 /\ ~match) =>
            /\ work = 0
            /\ inst[m].pc = "ResolvedNoMatch"
            /\ ~inst[m].rejected

(***************************************************************************)
(* C25: an effect run with enabled = false does nothing: no scroll         *)
(* interception, no parse, no detection callback, no noise phase, no       *)
(* change of the document, and the guard stays unset; the run is made once *)
(* when enabled becomes true later in the same mount.                      *)
(***************************************************************************)
C25_DisabledDoesNothing ==
  [][/\ \A m \in 1..cur' :
          /\ ~inst'[m].hasExecuted =>
               inst'[m] = [FreshMount(inst'[m].doc) EXCEPT
                             !.mounted = inst'[m].mounted]
          /\ inst'[m].enabled =>
               /\ inst'[m].hasExecuted
               /\ Count(inst'[m].trace, "scrollTop") = 1
               /\ Count(inst'[m].trace, "parse") = 1
     /\ (\A m \in 1..cur' : ~inst'[m].hasExecuted) => doc' = doc]_vars

C25_Witness ==
  /\ cur = 1
  /\ inst[1].mounted
  /\ ~inst[1].enabled
  /\ ~inst[1].hasExecuted
  /\ inst[1].pc = "Idle"
  /\ inst[1].trace = <<>>
  /\ doc[1].lazy = {1, 2}


\* C26 (as stated; violated): when a mode is set together with fine-grained
\* sttf settings, the options and the enabled flag the controller runs with
\* are those of the preset of the mode
C26_ModePresetWins ==
  (config.used /\ config.mode # "undefined" /\ config.sttf.given) =>
     /\ opts.showHighlight = MODE_PRESETS[config.mode].showHighlight
     /\ opts.enableCopyUI = MODE_PRESETS[config.mode].enableCopyUI
     /\ opts.noiseBudgetMs = Ticks(MODE_PRESETS[config.mode].noiseBudgetMs)
     /\ \A m \in 1..cur :
          inst[m].enabled = MODE_PRESETS[config.mode].enabled


\* the telemetry options whose delivery fails: a handler that throws, a beacon
\* the browser refuses, a fetch whose promise is rejected
FailingTelemetries == {"handlerThrows", "beaconRefused", "fetchRejects"}

\* C27 (as stated; violated): when the delivery of the telemetry fails, the
\* run whose detection callback was called is not rejected: it is in its
\* noise phase or has resolved
C27_TelemetryFailureSwallowed ==
  (config.used /\ config.telemetry \in FailingTelemetries) =>
     \A m \in 1..cur :
        Count(inst[m].trace, "onDetected") > 0 =>
           /\ ~inst[m].rejected
           /\ inst[m].pc \in {"NoisePhase", "ResolvedMatch", "ResolvedNoMatch"}


\* the request of the last handling carries a text directive
RequestHasSTTF == parseSTTFFromURL(url).value.kind # "null"

\* C28: every request a middleware handles ends with exactly one call of
\* next() and nothing thrown, whatever the url, the option and the sink
C28_NextExactlyOnce ==
  op = "handle" => (nexts = 1 /\ ~raised)

C28_Witness ==
  /\ op = "handle"
  /\ mws[mw].enableSTTFExtraction
  /\ RequestHasSTTF
  /\ sink \in ThrowingSinks
  /\ Len(calls) = 1
  /\ nexts = 1
  /\ ~raised


\* the last request was handled by a middleware created with only the
\* telemetry option, and the bus still holds that middleware's sink
HandledByTelemetryOnly ==
  /\ op = "handle"
  /\ mws[mw].options.telemetry.given
  /\ ~mws[mw].options.enableSTTFExtraction.given
  /\ sink = mws[mw].options.telemetry.value

\* C29 (as stated; violated): a middleware created by aegis({ telemetry })
\* delivers exactly one XS_LEAK/STTF/INFO event to its sink for a request
\* whose originalUrl carries a directive, and none for a request without
C29_TelemetryOnlyDelivers ==
  HandledByTelemetryOnly =>
     IF RequestHasSTTF
     THEN /\ Len(calls) = 1
          /\ calls[1].sink = sink
          /\ calls[1].event.kind = "XS_LEAK"
          /\ calls[1].event.vector = "STTF"
          /\ calls[1].event.level = "INFO"
     ELSE calls = <<>>

C31_DecodedExactlyOnce ==
  (op \in {"parse", "getTextFragments"} /\ HasSTTFPrefix(url)
     /\ ~URLThrows(url) /\ Len(RawTextValues(url)) > 0) =>
    LET raws == RawTextValues(url)
    IN /\ result.kind = "directives"
       /\ Len(result.texts) = Len(raws)
       /\ \A i \in 1..Len(raws) :
            ~DecodeThrows(raws[i]) =>
               result.texts[i] \in {PercentDecode(raws[i]),
                                    FormDecode(raws[i])}


(***************************************************************************)
(* C32: the bus is one slot, which holds no sink or one sink, and every    *)
(* invocation of a step goes to the sink the slot holds; once the slot     *)
(* holds a sink no register, emit, parse or detect step empties it.        *)
(***************************************************************************)
C32_NeverBackToNoSink ==
  [][/\ sink' \in {NoSink} \cup BusSinks
     /\ \A i \in 1..Len(calls') : calls'[i].sink = sink'
     /\ sink # NoSink => sink' # NoSink]_vars

C32_Witness ==
  /\ op = "detect"
  /\ prev = "capture"
  /\ sink = "thrower"
  /\ Len(calls) = 1

(***************************************************************************)
(* C35: a sink failure leaves the bus unchanged: an emit or detect step    *)
(* made while a throwing sink is registered raises nothing and leaves that *)
(* sink registered, and every emit made then, the first and every later    *)
(* one, invokes it once with the event emitted.                           *)
(***************************************************************************)
C35_FailureLeavesBusUnchanged ==
  [][(sink \in ThrowingSinks /\ op' \in {"emit", "detect"}) =>
       /\ sink' = sink
       /\ ~raised'
       /\ op' = "emit" => calls' = <<[sink |-> sink, event |-> event']>>]_vars

\* the throw of the sink was swallowed by an emit made after time has passed
C35_Witness ==
  /\ op = "emit"
  /\ sink \in ThrowingSinks
  /\ calls = <<[sink |-> sink, event |-> event]>>
  /\ event.timestamp = MaxClock
  /\ ~raised


\* the run of mount m had directives whose first text is on the page, with
\* showHighlight on, and its noise phase has ended
Matched(m) ==
  /\ inst[m].fragments.kind = "directives"
  /\ opts.showHighlight
  /\ TextOnPage(inst[m].doc)
  /\ Count(inst[m].trace, "noiseEnd") = 1

RECURSIVE LastTelemetry(_)
LastTelemetry(ms) ==
  IF Len(ms) = 0 THEN NoSink
  ELSE IF ms[Len(ms)].options.telemetry.given
       THEN ms[Len(ms)].options.telemetry.value
       ELSE LastTelemetry(SubSeq(ms, 1, Len(ms) - 1))

(***************************************************************************)
(* C36: the middlewares share the one slot of the bus: it holds the        *)
(* telemetry of the last middleware created with one, a middleware created *)
(* without telemetry leaves it as it is, and the events of a request go to *)
(* that sink whichever middleware handles the request.                     *)
(***************************************************************************)
C36_MiddlewaresShareSink ==
  /\ sink = LastTelemetry(mws)
  /\ op = "handle" =>
       /\ \A i \in 1..Len(calls) : calls[i].sink = LastTelemetry(mws)
       /\ (mws[mw].enableSTTFExtraction /\ RequestHasSTTF
             /\ LastTelemetry(mws) # NoSink) => Len(calls) = 1

\* the first middleware handles a request after a second one was created
\* with another sink: the event goes to the second sink
C36_Witness ==
  /\ op = "handle"
  /\ Len(mws) = 2
  /\ mw = 1
  /\ mws[1].options.telemetry = Given("capture")
  /\ mws[2].options.telemetry = Given("thrower")
  /\ Len(calls) = 1
  /\ calls[1].sink = "thrower"

====
